---- MODULE Spec2Model ----
(***************************************************************************)
(* Verification model of                                                   *)
(*   invokeai/app/invocations/controlnet_image_processors.py               *)
(*   ldm/bitterServer/paintingMuse/{models,schema}.py                      *)
(*                                                                         *)
(* The module holds several independent state machines, one per component, *)
(* each with its own specification:                                        *)
(*   SpecControl  construction of a ControlField                           *)
(*   SpecControlNet  ControlNetInvocation: construction, then invoke       *)
(*   Spec         the Painting GraphQL surface (queries and mutations)     *)
(*   SpecProc     ImageProcessorInvocation.invoke, step by step            *)
(*   SpecTile     TileResamplerProcessorInvocation.run_processor           *)
(*   SpecSam      SamDetectorReproducibleColors.show_anns                  *)
(*   SpecSamTwice two runs of show_anns on the same annotations            *)
(*   SpecConfig   construction of a processor invocation from its fields   *)
(* A specification leaves the variables of the other components at their   *)
(* initial values.                                                         *)
(***************************************************************************)
EXTENDS Integers, Sequences, FiniteSets, TLC

VARIABLES
    cfArgs,      \* arguments of the last ControlField(...) call
    cfResult,    \* "none" | "ok" | "ValidationError"
    cfValue,     \* the ControlField object built by the last successful call
    paintings,   \* the Painting table: primary key -> row
    nextId,      \* the next primary key the database hands out
    users,       \* primary keys of the rows of the user table
    now,         \* the wall clock
    resp,        \* the response to the last GraphQL operation
    before,      \* history: the Painting table before the last operation
    created,     \* history: ids returned by successful createPainting calls
    titleUnset,  \* history: ids created without a title in the input
    retitled,    \* history: ids a successful updatePainting was applied to
    createdWhen, \* history: id -> the wall clock when its createPainting ran
    store,       \* the image service: image name -> stored image record
    pc,          \* where the current invoke stands
    inv,         \* the invocation being run: its type and its image field
    raw,         \* raw_image
    processed,   \* processed_image
    dto,         \* image_dto
    output,      \* the ImageOutput returned
    outcome,     \* what the caller of invoke sees: "none" | "returned" | an error
    fault,       \* history: the step that raised and the error it raised
    calls,       \* history: calls made by the current invoke
    storeAtStart, \* history: the image service when the current invoke began
    tileImg,     \* the array run_processor gets: its shape
    tileRate,    \* down_sampling_rate as given to the invocation
    tilePc,      \* "new" | "constructed" | "ValidationError" | "done" | "raised"
    tileOut,     \* the size of the image run_processor returned
    samAnns,     \* anns: the annotations show_anns is called with
    samPc,       \* "new" | "done"
    samOut,      \* what show_anns returned
    samEmpty,    \* what np.empty hands out in the first and in the second run
    samOut2,     \* what the second run of show_anns returned
    cfgArgs,     \* the fields a processor invocation is constructed from
    cfgPc,       \* "new" | "constructed" | "ValidationError" | "invoked"
    cfgFetched,  \* TRUE once invoke has called images.get_pil_image
    cnArgs,      \* the fields a ControlNetInvocation is constructed from
    cnPc         \* "new" | "constructed" | "ValidationError" | "returned" | "raised"

controlVars == <<cfArgs, cfResult, cfValue>>

paintVars == <<paintings, nextId, users, now, resp, before, created,
               titleUnset, retitled, createdWhen>>

procVars == <<store, pc, inv, raw, processed, dto, output, outcome, fault, calls,
              storeAtStart>>

tileVars == <<tileImg, tileRate, tilePc, tileOut>>

samVars == <<samAnns, samPc, samOut, samEmpty, samOut2>>

configVars == <<cfgArgs, cfgPc, cfgFetched>>

netVars == <<cnArgs, cnPc>>

vars == <<controlVars, paintVars, procVars, tileVars, samVars, configVars, netVars>>

\* Sequences over S of length at most n.
BSeq(S, n) == UNION {[1..k -> S] : k \in 0..n}

(***************************************************************************)
(* Python floats.  A finite float is held in hundredths: Num(150) is 1.5.  *)
(* NaN and the infinities are floats too, with IEEE-754 comparisons: every *)
(* ordered comparison with NaN is False.                                   *)
(***************************************************************************)
Num(n) == [k |-> "num", v |-> n]
NaN == [k |-> "nan", v |-> 0]
PosInf == [k |-> "inf", v |-> 1]
NegInf == [k |-> "inf", v |-> -1]

\* a < b on floats
FLt(a, b) ==
    IF a.k = "nan" \/ b.k = "nan" THEN FALSE
    ELSE IF a.k = "inf" THEN a.v < 0 /\ ~(b.k = "inf" /\ b.v < 0)
    ELSE IF b.k = "inf" THEN b.v > 0
    ELSE a.v < b.v

\* a > b on floats
FGt(a, b) == FLt(b, a)

\* a >= b on floats
FGe(a, b) == IF a.k = "nan" \/ b.k = "nan" THEN FALSE ELSE ~FLt(a, b)

\* a <= b on floats
FLe(a, b) == FGe(b, a)

(***************************************************************************)
(* ControlField (controlnet_image_processors.py:64-87)                     *)
(***************************************************************************)

\* control_weight: Union[float, List[float]]
Scalar(x) == [tag |-> "float", x |-> x, xs |-> <<>>]
WList(xs) == [tag |-> "list", x |-> Num(0), xs |-> xs]

MaxWeights == 3

\* the literals -1 and 2 of the validator
WeightLow == Num(-100)
WeightHigh == Num(200)

\* `if i < -1 or i > 2: raise ValueError(...)`
WeightRejected(i) == FLt(i, WeightLow) \/ FGt(i, WeightHigh)

\* validate_control_weight: TRUE when the validator returns v, FALSE when it
\* raises ValueError.
validate_control_weight(v) ==
    IF v.tag = "list"
    THEN \A n \in 1..Len(v.xs) : ~WeightRejected(v.xs[n])
    ELSE ~WeightRejected(v.x)

\* Field(ge=lo, le=hi) on a float field: pydantic raises unless v >= lo and
\* v <= hi.
FieldGeLe(v, lo, hi) == FGe(v, lo) /\ FLe(v, hi)

\* begin_step_percent and end_step_percent: ge=0, le=1
StepPercentOk(v) == FieldGeLe(v, Num(0), Num(100))

NoField == [control_weight |-> Scalar(Num(0)), begin_step_percent |-> Num(0),
            end_step_percent |-> Num(0)]

\* ControlField(control_weight=w, begin_step_percent=b, end_step_percent=e):
\* every field is validated; any failure makes the construction raise
\* ValidationError, otherwise the object holds the values given.
ControlFieldOk(w, b, e) ==
    validate_control_weight(w) /\ StepPercentOk(b) /\ StepPercentOk(e)

ControlField(w, b, e) ==
    [control_weight |-> w, begin_step_percent |-> b, end_step_percent |-> e]

\* Inputs of the model.
ScalarFloats ==
    {Num(10 * n) : n \in -13..23} \cup {Num(-101), Num(201), NaN, PosInf, NegInf}
ListFloats == {Num(-101), Num(-100), Num(50), Num(200), Num(201), NaN}
Weights == {Scalar(x) : x \in ScalarFloats}
              \cup {WList(xs) : xs \in BSeq(ListFloats, MaxWeights)}
StepPercents == {Num(-1), Num(0), Num(100), Num(101), NaN}

\* The arguments of the call are drawn when the behaviour starts.
ControlInit ==
    /\ cfArgs \in {ControlField(w, b, e) : w \in Weights, b \in StepPercents, e \in StepPercents}
    /\ cfResult = "none"
    /\ cfValue = NoField

Construct(w, b, e) ==
    IF ControlFieldOk(w, b, e)
    THEN cfResult' = "ok" /\ cfValue' = ControlField(w, b, e)
    ELSE cfResult' = "ValidationError" /\ cfValue' = NoField

ConstructControlField ==
    /\ cfResult = "none"
    /\ Construct(cfArgs.control_weight, cfArgs.begin_step_percent, cfArgs.end_step_percent)
    /\ UNCHANGED cfArgs

ControlIdle ==
    /\ cfArgs = NoField
    /\ cfResult = "none"
    /\ cfValue = NoField

ControlNext == ConstructControlField /\ UNCHANGED <<paintVars, procVars, tileVars, samVars, configVars, netVars>>

(***************************************************************************)
(* Painting (models.py:24-41) and its GraphQL surface (schema.py)          *)
(***************************************************************************)

\* Python's None / SQL NULL / an argument left out of the request
None == "<None>"

\* A primary key argument that is null or left out (`id = graphene.ID()` is
\* not required); no row has it, keys start at 1.
NoId == 0

MaxPaintings == 2
MaxClock == 1

\* `default=datetime.now(pytz.utc)` is evaluated once, when models.py is
\* imported: the time the server process started.
ImportTime == 0

\* `default=1` of the user foreign key
DefaultUser == 1

\* Painting(prompt=, title=, artist_id=): the fields not passed take their
\* model defaults.  A title passed explicitly (None included) overrides the
\* model default "Untitled".
Painting(prompt, title, artist_id) ==
    [id |-> NoId, title |-> title, created_at |-> ImportTime,
     inspiration_image_url |-> None, artist_id |-> artist_id,
     user |-> DefaultUser, width |-> None, height |-> None, prompt |-> prompt]

NoRow == [id |-> NoId, title |-> None, created_at |-> ImportTime,
          inspiration_image_url |-> None, artist_id |-> None,
          user |-> DefaultUser, width |-> None, height |-> None, prompt |-> None]

\* PaintingInput.title: graphene fills in default_value="Untitled" when the
\* input object has no title key; a title given (null included) is kept.
\* (faulty variant: no default_value)
PaintingInputTitleNoDefault(given, title) == IF given THEN title ELSE ""
PaintingInputTitle(given, title) == IF given THEN title ELSE "Untitled"

PaintingInput(titleGiven, title, artist_id, prompt) ==
    [title |-> PaintingInputTitle(titleGiven, title), artist_id |-> artist_id,
     prompt |-> prompt]

\* The database constraints an INSERT or UPDATE of a row must meet: title and
\* artist_id are NOT NULL columns (null=False is the field default), user is
\* a NOT NULL foreign key into the user table; prompt, width, height and
\* inspiration_image_url are nullable.
RowAccepted(row, userTable) ==
    /\ row.title # None
    /\ row.artist_id # None
    /\ row.user \in userTable

\* Painting.objects.get(pk=id): the row, or DoesNotExist
Exists(table, id) == id \in DOMAIN table

\* Painting.objects.all()
\* (faulty variant: a filtered queryset)
AllRowsButFirst(table) == {table[i] : i \in DOMAIN table \ {1}}
AllRows(table) == {table[i] : i \in DOMAIN table}

Args(id, title, artist_id, prompt) ==
    [id |-> id, title |-> title, artist_id |-> artist_id, prompt |-> prompt]

Response(op, args, status, painting, all) ==
    [op |-> op, args |-> args, status |-> status, painting |-> painting, all |-> all]

NoResponse == Response("none", Args(NoId, None, None, None), "none", NoRow, {})

\* Query.resolve_all_paintings
resolve_all_paintings(table) ==
    Response("allPaintings", Args(NoId, None, None, None), "ok", NoRow, AllRows(table))

\* (faulty variant of resolve_painting: filter(...).first() in place of get)
resolve_paintingOrNull(table, painting_id) ==
    Response("painting", Args(painting_id, None, None, None), "ok",
             IF Exists(table, painting_id) THEN table[painting_id] ELSE NoRow, {})
\* Query.resolve_painting
resolve_painting(table, painting_id) ==
    IF Exists(table, painting_id)
    THEN Response("painting", Args(painting_id, None, None, None), "ok",
                  table[painting_id], {})
    ELSE Response("painting", Args(painting_id, None, None, None), "DoesNotExist",
                  NoRow, {})

\* (faulty variant of InsertedRow: prompt and title exchanged)
InsertedRowSwapped(painting_data, pk) ==
    [Painting(painting_data.title, painting_data.prompt, painting_data.artist_id)
        EXCEPT !.id = pk]
\* painting_instance.save() of a new instance: an INSERT under a fresh
\* primary key
InsertedRow(painting_data, pk) ==
    [Painting(painting_data.prompt, painting_data.title, painting_data.artist_id)
        EXCEPT !.id = pk]

\* (faulty variant of UpdatedTable: an UPDATE without its WHERE clause)
UpdatedTableAllRows(table, id, title) ==
    [i \in DOMAIN table |-> [table[i] EXCEPT !.title = title]]
\* painting.title = title; painting.save(): an UPDATE of the row loaded
UpdatedTable(table, id, title) == [table EXCEPT ![id].title = title]

\* The paintingData objects of the model: titleGiven says whether the input
\* object has a title key (a key may carry an explicit null).
PaintingData(titleGiven, title, artist_id, prompt) ==
    [titleGiven |-> titleGiven, title |-> title, artist_id |-> artist_id, prompt |-> prompt]

CreateInputs ==
    { PaintingData(FALSE, None, "a1", "p1"),     \* no title
      PaintingData(TRUE, "Dawn", "a2", None),    \* no prompt
      PaintingData(TRUE, None, "a1", "p2"),      \* title: null
      PaintingData(FALSE, None, None, "p1"),     \* no artistId
      PaintingData(TRUE, "Untitled", "a2", "p2") }
NewTitles == {"Dusk", "Noon"}
UserTables == {{}, {DefaultUser}}
Ids == (1..(MaxPaintings + 1)) \cup {NoId}

PaintInit ==
    /\ paintings = <<>>
    /\ nextId = 1
    /\ users \in UserTables
    /\ now = ImportTime
    /\ resp = NoResponse
    /\ before = <<>>
    /\ created = {}
    /\ titleUnset = {}
    /\ retitled = {}
    /\ createdWhen = <<>>

\* CreatePainting.mutate
CreatePainting(titleGiven, title, artist_id, prompt) ==
    LET painting_data == PaintingInput(titleGiven, title, artist_id, prompt)
        row == InsertedRow(painting_data, nextId)
        args == Args(NoId, IF titleGiven THEN title ELSE None, artist_id, prompt)
    IN  /\ nextId <= MaxPaintings
        /\ before' = paintings
        /\ IF RowAccepted(row, users)
           THEN /\ paintings' = (nextId :> row) @@ paintings
                /\ nextId' = nextId + 1
                /\ resp' = Response("createPainting", args, "ok", row, {})
                /\ created' = created \cup {nextId}
                /\ titleUnset' = IF titleGiven THEN titleUnset
                                 ELSE titleUnset \cup {nextId}
                /\ createdWhen' = (nextId :> now) @@ createdWhen
           ELSE /\ resp' = Response("createPainting", args, "IntegrityError", NoRow, {})
                /\ UNCHANGED <<paintings, nextId, created, titleUnset, createdWhen>>
        /\ UNCHANGED <<users, now, retitled>>

\* UpdatePainting.mutate
UpdatePainting(title, id) ==
    /\ before' = paintings
    /\ IF Exists(paintings, id)
       THEN /\ paintings' = UpdatedTable(paintings, id, title)
            /\ resp' = Response("updatePainting", Args(id, title, None, None), "ok",
                                paintings'[id], {})
            /\ retitled' = retitled \cup {id}
       ELSE /\ resp' = Response("updatePainting", Args(id, title, None, None),
                                "DoesNotExist", NoRow, {})
            /\ UNCHANGED <<paintings, retitled>>
    /\ UNCHANGED <<nextId, users, now, created, titleUnset, createdWhen>>

\* query { painting(paintingId: ...) }
QueryPainting(painting_id) ==
    /\ before' = paintings
    /\ resp' = resolve_painting(paintings, painting_id)
    /\ UNCHANGED <<paintings, nextId, users, now, created, titleUnset, retitled,
                   createdWhen>>

\* query { allPaintings }
QueryAllPaintings ==
    /\ before' = paintings
    /\ resp' = resolve_all_paintings(paintings)
    /\ UNCHANGED <<paintings, nextId, users, now, created, titleUnset, retitled,
                   createdWhen>>

\* Time passes between requests.
Tick ==
    /\ now < MaxClock
    /\ now' = now + 1
    /\ UNCHANGED <<paintings, nextId, users, resp, before, created,
                   titleUnset, retitled, createdWhen>>

CreatePaintingRequest ==
    \E d \in CreateInputs : CreatePainting(d.titleGiven, d.title, d.artist_id, d.prompt)

UpdatePaintingRequest ==
    \E title \in NewTitles, id \in Ids : UpdatePainting(title, id)

QueryPaintingRequest == \E painting_id \in Ids : QueryPainting(painting_id)

PaintNext ==
    \/ CreatePaintingRequest /\ UNCHANGED <<controlVars, procVars, tileVars, samVars, configVars, netVars>>
    \/ UpdatePaintingRequest /\ UNCHANGED <<controlVars, procVars, tileVars, samVars, configVars, netVars>>
    \/ QueryPaintingRequest /\ UNCHANGED <<controlVars, procVars, tileVars, samVars, configVars, netVars>>
    \/ QueryAllPaintings /\ UNCHANGED <<controlVars, procVars, tileVars, samVars, configVars, netVars>>
    \/ Tick /\ UNCHANGED <<controlVars, procVars, tileVars, samVars, configVars, netVars>>


(***************************************************************************)
(* ImageProcessorInvocation.invoke (controlnet_image_processors.py:137-227)*)
(* The image service (context.services.images) lives outside these files;  *)
(* get_pil_image and create are modelled from section 6 of the             *)
(* specification: fetch by name, create with origin and category tags.     *)
(***************************************************************************)

MaxImages == 3

Image(width, height, data) == [width |-> width, height |-> height, data |-> data]
NoImage == Image(0, 0, "none")

\* A stored image: the pixels and the tags it was created with.
Stored(image, origin, category) ==
    [image |-> image, origin |-> origin, category |-> category]

\* images.get_pil_image(name): whether the service holds the name
HasImage(images, image_name) == image_name \in DOMAIN images

\* images.create(...): the service stores the image under a name no image
\* has and reports that name and the stored image's size.
FreshName(images) == Cardinality(DOMAIN images) + 1

ImageDTO(image_name, image) ==
    [image_name |-> image_name, width |-> image.width, height |-> image.height]
NoDTO == [image_name |-> 0, width |-> 0, height |-> 0]

ServiceCreate(images, image, origin, category) ==
    (FreshName(images) :> Stored(image, origin, category)) @@ images

\* The arguments invoke passes to images.create
CreateTags == [origin |-> "INTERNAL", category |-> "CONTROL"]

\* (faulty variant of ImageOutput: the input's image field is returned)
ImageOutputOfInput(image_dto, self) ==
    [image_name |-> self.image_name, width |-> image_dto.width, height |-> image_dto.height]
\* ImageOutput(image=ImageField(image_name=image_dto.image_name),
\*             width=image_dto.width, height=image_dto.height)
ImageOutput(image_dto, self) ==
    [image_name |-> image_dto.image_name, width |-> image_dto.width,
     height |-> image_dto.height]
NoOutput == [image_name |-> 0, width |-> 0, height |-> 0]

\* (faulty variant of OnException: a failed detector call is retried)
OnExceptionRetry(at, err) ==
    [pc |-> IF at = "infer" THEN "run" ELSE "failed",
     outcome |-> IF at = "infer" THEN "none" ELSE err]
\* invoke has no try/except: an exception raised by a call leaves invoke as
\* it is, the steps after it are not run.
OnException(at, err) == [pc |-> "failed", outcome |-> err]

Types == {"image_processor", "canny_image_processor", "hed_image_processor"}

\* run_processor of the type calls from_pretrained("lllyasviel/Annotators")
LoadsPretrained(type) == type = "hed_image_processor"

\* What a detector can return: the external model decides the size.
DetectorOutputs == {Image(2, 2, "edges"), Image(4, 2, "edges")}

InitialStores ==
    { <<Stored(Image(4, 2, "photo"), "EXTERNAL", "GENERAL")>>,
      <<Stored(Image(2, 2, "photo"), "EXTERNAL", "GENERAL"),
        Stored(Image(4, 4, "edges"), "INTERNAL", "CONTROL")>> }

NoCalls == [get |-> 0, run |-> 0, load |-> 0, infer |-> 0, create |-> 0]
NoFault == [at |-> "none", err |-> "none"]
NoInvocation == [type |-> "none", image_name |-> 0]

ProcIdle ==
    /\ store = <<>>
    /\ pc = "idle"
    /\ inv = NoInvocation
    /\ raw = NoImage
    /\ processed = NoImage
    /\ dto = NoDTO
    /\ output = NoOutput
    /\ outcome = "none"
    /\ fault = NoFault
    /\ calls = NoCalls
    /\ storeAtStart = <<>>

ProcInit ==
    /\ store \in InitialStores
    /\ pc = "idle"
    /\ inv = NoInvocation
    /\ raw = NoImage
    /\ processed = NoImage
    /\ dto = NoDTO
    /\ output = NoOutput
    /\ outcome = "none"
    /\ fault = NoFault
    /\ calls = NoCalls
    /\ storeAtStart = store

\* A step of invoke raises err.
Raise(at, err) ==
    /\ pc' = OnException(at, err).pc
    /\ outcome' = OnException(at, err).outcome
    /\ fault' = [at |-> at, err |-> err]

\* The graph executor calls invoke on an invocation.
StartInvoke ==
    /\ pc \in {"idle", "done", "failed"}
    /\ Cardinality(DOMAIN store) < MaxImages
    /\ \E type \in Types, image_name \in 1..MaxImages :
          inv' = [type |-> type, image_name |-> image_name]
    /\ pc' = "get"
    /\ raw' = NoImage /\ processed' = NoImage /\ dto' = NoDTO /\ output' = NoOutput
    /\ outcome' = "none" /\ fault' = NoFault /\ calls' = NoCalls
    /\ storeAtStart' = store
    /\ UNCHANGED store

\* raw_image = context.services.images.get_pil_image(self.image.image_name)
GetPilImage ==
    /\ pc = "get"
    /\ calls' = [calls EXCEPT !.get = @ + 1]
    /\ IF HasImage(store, inv.image_name)
       THEN /\ raw' = store[inv.image_name].image
            /\ pc' = "run"
            /\ UNCHANGED <<outcome, fault>>
       ELSE /\ Raise("get", "ImageFileNotFound")
            /\ UNCHANGED raw
    /\ UNCHANGED <<store, inv, processed, dto, output, storeAtStart>>

\* ImageProcessorInvocation.run_processor: the image is passed through
RunPassThrough ==
    /\ pc = "run" /\ inv.type = "image_processor"
    /\ calls' = [calls EXCEPT !.run = @ + 1]
    /\ processed' = raw
    /\ pc' = "create"
    /\ UNCHANGED <<store, inv, raw, dto, output, outcome, fault, storeAtStart>>

\* CannyImageProcessorInvocation.run_processor: canny_processor = CannyDetector()
RunCanny ==
    /\ pc = "run" /\ inv.type = "canny_image_processor"
    /\ calls' = [calls EXCEPT !.run = @ + 1]
    /\ pc' = "infer"
    /\ UNCHANGED <<store, inv, raw, processed, dto, output, outcome, fault, storeAtStart>>

\* HedImageProcessorInvocation.run_processor:
\* hed_processor = HEDdetector.from_pretrained("lllyasviel/Annotators")
RunHedLoad ==
    /\ pc = "run" /\ LoadsPretrained(inv.type)
    /\ calls' = [calls EXCEPT !.run = @ + 1, !.load = @ + 1]
    /\ \/ pc' = "infer" /\ UNCHANGED <<outcome, fault>>
       \/ Raise("load", "ModelLoadError")
    /\ UNCHANGED <<store, inv, raw, processed, dto, output, storeAtStart>>

\* processed_image = processor(image, ...)
Infer ==
    /\ pc = "infer"
    /\ calls' = [calls EXCEPT !.infer = @ + 1]
    /\ \/ /\ processed' \in DetectorOutputs
          /\ pc' = "create"
          /\ UNCHANGED <<outcome, fault>>
       \/ /\ Raise("infer", "InferenceError")
          /\ UNCHANGED processed
    /\ UNCHANGED <<store, inv, raw, dto, output, storeAtStart>>

\* image_dto = context.services.images.create(image=processed_image,
\*     image_origin=ResourceOrigin.INTERNAL, image_category=ImageCategory.CONTROL, ...)
CreateImage ==
    /\ pc = "create"
    /\ calls' = [calls EXCEPT !.create = @ + 1]
    /\ \/ /\ store' = ServiceCreate(store, processed, CreateTags.origin, CreateTags.category)
          /\ dto' = ImageDTO(FreshName(store), processed)
          /\ pc' = "build"
          /\ UNCHANGED <<outcome, fault>>
       \/ /\ Raise("create", "StorageError")
          /\ UNCHANGED <<store, dto>>
    /\ UNCHANGED <<inv, raw, processed, output, storeAtStart>>

\* return ImageOutput(...)
ReturnOutput ==
    /\ pc = "build"
    /\ output' = ImageOutput(dto, inv)
    /\ outcome' = "returned"
    /\ pc' = "done"
    /\ UNCHANGED <<store, inv, raw, processed, dto, fault, calls, storeAtStart>>

ProcNext ==
    \/ StartInvoke /\ UNCHANGED <<controlVars, paintVars, tileVars, samVars, configVars, netVars>>
    \/ GetPilImage /\ UNCHANGED <<controlVars, paintVars, tileVars, samVars, configVars, netVars>>
    \/ RunPassThrough /\ UNCHANGED <<controlVars, paintVars, tileVars, samVars, configVars, netVars>>
    \/ RunCanny /\ UNCHANGED <<controlVars, paintVars, tileVars, samVars, configVars, netVars>>
    \/ RunHedLoad /\ UNCHANGED <<controlVars, paintVars, tileVars, samVars, configVars, netVars>>
    \/ Infer /\ UNCHANGED <<controlVars, paintVars, tileVars, samVars, configVars, netVars>>
    \/ CreateImage /\ UNCHANGED <<controlVars, paintVars, tileVars, samVars, configVars, netVars>>
    \/ ReturnOutput /\ UNCHANGED <<controlVars, paintVars, tileVars, samVars, configVars, netVars>>


(***************************************************************************)
(* TileResamplerProcessorInvocation (controlnet_image_processors.py:479-512)*)
(***************************************************************************)

MaxDim == 5

\* The shape of a numpy array: H rows, W columns, C channels; C = 0 stands
\* for a two-dimensional array (a single-band image).
Shape(H, W, C) == [H |-> H, W |-> W, C |-> C]
NoShape == Shape(0, 0, 0)

\* The result of a call: a value, or the exception raised.
Ok(shape) == [status |-> "ok", shape |-> shape]
Raised(err) == [status |-> err, shape |-> NoShape]

\* controlnet_aux.util.HWC3: a two-dimensional array gets a channel axis;
\* 1, 3 or 4 channels become 3; any other count fails its assertion.
HWC3(x) ==
    LET C == IF x.C = 0 THEN 1 ELSE x.C
    IN  IF C \in {1, 3, 4} THEN Ok(Shape(x.H, x.W, 3)) ELSE Raised("AssertionError")

\* down_sampling_rate: float = InputField(default=1.0, ge=1.0, le=8.0)
DownSamplingRateOk(rate) == FieldGeLe(rate, Num(100), Num(800))

\* `down_sampling_rate < 1.1`
BelowThreshold(rate) == FLt(rate, Num(110))

\* int(float(n) / float(down_sampling_rate)) for a finite positive rate
Scaled(n, rate) == (n * 100) \div rate.v

\* cv2.resize(src, (width, height), interpolation=cv2.INTER_AREA): an array
\* of height rows and width columns; an empty size is an error.
Cv2Resize(src, width, height) ==
    IF width <= 0 \/ height <= 0 THEN Raised("cv2.error")
    ELSE Ok(Shape(height, width, src.C))

\* (faulty variant of tile_resample: dsize given as (H, W))
TileResampleSwapped(np_img, down_sampling_rate) ==
    LET img == HWC3(np_img)
    IN  IF img.status # "ok" THEN img
        ELSE IF BelowThreshold(down_sampling_rate) THEN img
        ELSE Cv2Resize(img.shape, Scaled(img.shape.H, down_sampling_rate),
                       Scaled(img.shape.W, down_sampling_rate))
\* tile_resample
tile_resample(np_img, down_sampling_rate) ==
    LET img == HWC3(np_img)
    IN  IF img.status # "ok" THEN img
        ELSE IF BelowThreshold(down_sampling_rate) THEN img
        ELSE Cv2Resize(img.shape, Scaled(img.shape.W, down_sampling_rate),
                       Scaled(img.shape.H, down_sampling_rate))

\* Image.fromarray(processed_np_image): a PIL image of the array's size
NoSize == [width |-> 0, height |-> 0]
FromArray(shape) == [width |-> shape.W, height |-> shape.H]

TileShapes == {Shape(H, W, C) : H \in 1..MaxDim, W \in 1..MaxDim, C \in {0, 2, 3, 4}}
TileRates ==
    {Num(r) : r \in {50, 99, 100, 105, 109, 110, 111, 150, 200, 250, 300, 450, 800, 801}}
        \cup {NaN, PosInf}

TileIdle ==
    /\ tileImg = NoShape
    /\ tileRate = Num(100)
    /\ tilePc = "idle"
    /\ tileOut = NoSize

TileInit ==
    /\ tileImg \in TileShapes
    /\ tileRate \in TileRates
    /\ tilePc = "new"
    /\ tileOut = NoSize

\* TileResamplerProcessorInvocation(down_sampling_rate=...)
ConstructTile ==
    /\ tilePc = "new"
    /\ tilePc' = IF DownSamplingRateOk(tileRate) THEN "constructed" ELSE "ValidationError"
    /\ UNCHANGED <<tileImg, tileRate, tileOut>>

\* TileResamplerProcessorInvocation.run_processor
RunTile ==
    /\ tilePc = "constructed"
    /\ LET processed_np_image == tile_resample(tileImg, tileRate)
       IN  IF processed_np_image.status = "ok"
           THEN tilePc' = "done" /\ tileOut' = FromArray(processed_np_image.shape)
           ELSE tilePc' = "raised" /\ tileOut' = NoSize
    /\ UNCHANGED <<tileImg, tileRate>>

TileNext ==
    \/ ConstructTile /\ UNCHANGED <<controlVars, paintVars, procVars, samVars, configVars, netVars>>
    \/ RunTile /\ UNCHANGED <<controlVars, paintVars, procVars, samVars, configVars, netVars>>


(***************************************************************************)
(* SamDetectorReproducibleColors.show_anns                                 *)
(* (controlnet_image_processors.py:532-551)                                *)
(***************************************************************************)

MaxAnns == 3
NumPixels == 2
PaletteLen == 2

\* The pixels of the h x w image, numbered row by row.
Pixels == 1..NumPixels

\* An annotation: its "area" and its "segmentation", the set of pixels at
\* which the boolean mask is True.
Ann(area, segmentation) == [area |-> area, segmentation |-> segmentation]

\* ade_palette(): a list of colours, none of them black; colour c stands for
\* the c-th entry.  Black, the colour of np.zeros, is 0.
palette == [c \in 1..PaletteLen |-> c]
Black == 0

\* sorted(anns, key=lambda x: x["area"], reverse=True): descending by area;
\* the sort is stable, annotations of equal area keep their order.
RECURSIVE InsertDescending(_, _)
InsertDescending(sortedSeq, x) ==
    IF sortedSeq = <<>> THEN <<x>>
    ELSE IF Head(sortedSeq).area >= x.area
         THEN <<Head(sortedSeq)>> \o InsertDescending(Tail(sortedSeq), x)
         ELSE <<x>> \o sortedSeq

\* (faulty variant of the sort: reverse=True left out)
RECURSIVE InsertAscending(_, _)
InsertAscending(sortedSeq, x) ==
    IF sortedSeq = <<>> THEN <<x>>
    ELSE IF Head(sortedSeq).area <= x.area
         THEN <<Head(sortedSeq)>> \o InsertAscending(Tail(sortedSeq), x)
         ELSE <<x>> \o sortedSeq

RECURSIVE SortedAscending(_)
SortedAscending(anns) ==
    IF anns = <<>> THEN <<>>
    ELSE InsertAscending(SortedAscending(SubSeq(anns, 1, Len(anns) - 1)), anns[Len(anns)])

RECURSIVE SortedDescending(_)
SortedDescending(anns) ==
    IF anns = <<>> THEN <<>>
    ELSE InsertDescending(SortedDescending(SubSeq(anns, 1, Len(anns) - 1)), anns[Len(anns)])

sorted_anns(anns) == SortedDescending(anns)

\* ann_color = palette[i % len(palette)], i counted from 0
ann_color(i) == palette[(i % Len(palette)) + 1]

\* final_img.paste(img, (0, 0), mask): the pixels of the mask take the colour
Paste(final_img, color, m) ==
    [p \in Pixels |-> IF p \in m THEN color ELSE final_img[p]]

\* the loop `for i, ann in enumerate(sorted_anns)` after n annotations
RECURSIVE Painted(_, _)
Painted(sorted, n) ==
    IF n = 0 THEN [p \in Pixels |-> Black]
    ELSE Paste(Painted(sorted, n - 1), ann_color(n - 1), sorted[n].segmentation)

NoSamImage == [p \in Pixels |-> Black]

\* show_anns: None for an empty list, else the painted image
show_anns(anns) ==
    IF Len(anns) = 0 THEN [returned |-> "None", img |-> NoSamImage]
    ELSE [returned |-> "image", img |-> Painted(sorted_anns(anns), Len(anns))]

Areas == 1..2
AnnValues == {Ann(a, m) : a \in Areas, m \in SUBSET Pixels}

\* np.empty((h, w, 3)): the array is not initialised, its content is whatever
\* the allocator hands out.  Two contents stand for it: all pixels black and
\* all pixels of a colour that is not in the palette.
Junk == PaletteLen + 1
EmptyArrays == {[p \in Pixels |-> c] : c \in {Black, Junk}}

\* (faulty variant of the fill: the assignment left out, img stays as
\* np.empty returned it)
FillSkipped(img, color) == img

\* img[:, :] = ann_color: every pixel of img is overwritten
Fill(img, color) == [p \in Pixels |-> color]

\* final_img.paste(Image.fromarray(img), (0, 0), mask): the pixels of the mask
\* take the pixels of img
PasteImage(final_img, img, m) ==
    [p \in Pixels |-> IF p \in m THEN img[p] ELSE final_img[p]]

\* the loop after n annotations, np.empty returning `empty` at each turn
RECURSIVE PaintedFrom(_, _, _)
PaintedFrom(sorted, n, empty) ==
    IF n = 0 THEN [p \in Pixels |-> Black]
    ELSE PasteImage(PaintedFrom(sorted, n - 1, empty),
                    Fill(empty, ann_color(n - 1)),
                    sorted[n].segmentation)

\* one run of show_anns in a process whose np.empty returns `empty`
show_anns_run(anns, empty) ==
    IF Len(anns) = 0 THEN [returned |-> "None", img |-> NoSamImage]
    ELSE [returned |-> "image",
          img |-> PaintedFrom(sorted_anns(anns), Len(anns), empty)]

NoRun == [returned |-> "none", img |-> NoSamImage]

SamIdle ==
    /\ samAnns = <<>>
    /\ samPc = "idle"
    /\ samOut = NoRun
    /\ samEmpty = <<NoSamImage, NoSamImage>>
    /\ samOut2 = NoRun

SamInit ==
    /\ samAnns \in BSeq(AnnValues, MaxAnns)
    /\ samPc = "new"
    /\ samOut = NoRun
    /\ samEmpty = <<NoSamImage, NoSamImage>>
    /\ samOut2 = NoRun

ShowAnns ==
    /\ samPc = "new"
    /\ samOut' = show_anns(samAnns)
    /\ samPc' = "done"
    /\ UNCHANGED <<samAnns, samEmpty, samOut2>>

SamNext == ShowAnns /\ UNCHANGED <<controlVars, paintVars, procVars, tileVars, configVars, netVars>>

\* Two runs on the same annotations; what np.empty returns is drawn
\* separately for each run.
SamTwiceInit ==
    /\ samAnns \in BSeq(AnnValues, MaxAnns)
    /\ samEmpty \in EmptyArrays \X EmptyArrays
    /\ samPc = "new"
    /\ samOut = NoRun
    /\ samOut2 = NoRun

ShowAnnsFirst ==
    /\ samPc = "new"
    /\ samOut' = show_anns_run(samAnns, samEmpty[1])
    /\ samPc' = "once"
    /\ UNCHANGED <<samAnns, samEmpty, samOut2>>

ShowAnnsSecond ==
    /\ samPc = "once"
    /\ samOut2' = show_anns_run(samAnns, samEmpty[2])
    /\ samPc' = "twice"
    /\ UNCHANGED <<samAnns, samEmpty, samOut>>

SamTwiceNext ==
    \/ ShowAnnsFirst /\ UNCHANGED <<controlVars, paintVars, procVars, tileVars, configVars, netVars>>
    \/ ShowAnnsSecond /\ UNCHANGED <<controlVars, paintVars, procVars, tileVars, configVars, netVars>>

(***************************************************************************)
(* The numeric fields of the processor invocations                         *)
(* (controlnet_image_processors.py:190-195, 211-212, 437-438, 486)         *)
(***************************************************************************)

\* The invocation classes, by their `type`.  hed_image_processor stands for
\* every class whose numeric fields are detect_resolution and image_resolution.
Canny(low, high) ==
    [type |-> "canny_image_processor", low_threshold |-> low, high_threshold |-> high]
Hed(detect, image) ==
    [type |-> "hed_image_processor", detect_resolution |-> detect,
     image_resolution |-> image]
MediapipeFace(faces, confidence) ==
    [type |-> "mediapipe_face_processor", max_faces |-> faces,
     min_confidence |-> confidence]
TileResampler(rate) ==
    [type |-> "tile_image_processor", down_sampling_rate |-> rate]

\* InputField(ge=lo) and InputField(ge=lo, le=hi) on an int field
IntGe(v, lo) == v >= lo
IntGeLe(v, lo, hi) == v >= lo /\ v <= hi

\* (faulty variant of the Canny thresholds: le=255 left out)
CannyOkNoUpper(c) == IntGe(c.low_threshold, 0) /\ IntGe(c.high_threshold, 0)

\* low_threshold and high_threshold: ge=0, le=255
CannyOk(c) == IntGeLe(c.low_threshold, 0, 255) /\ IntGeLe(c.high_threshold, 0, 255)

\* detect_resolution and image_resolution: ge=0
HedOk(c) == IntGe(c.detect_resolution, 0) /\ IntGe(c.image_resolution, 0)

\* max_faces: ge=1; min_confidence: ge=0, le=1
MediapipeFaceOk(c) ==
    IntGe(c.max_faces, 1) /\ FieldGeLe(c.min_confidence, Num(0), Num(100))

\* down_sampling_rate: ge=1.0, le=8.0
TileResamplerOk(c) == DownSamplingRateOk(c.down_sampling_rate)

\* TRUE when the constructor returns an object, FALSE when pydantic raises
\* ValidationError.
ConfigOk(c) ==
    CASE c.type = "canny_image_processor" -> CannyOk(c)
      [] c.type = "hed_image_processor" -> HedOk(c)
      [] c.type = "mediapipe_face_processor" -> MediapipeFaceOk(c)
      [] c.type = "tile_image_processor" -> TileResamplerOk(c)

\* Inputs of the model: an int field is given ints, a float field floats.
Thresholds == {-1, 0, 100, 200, 255, 256}
Resolutions == {-1, 0, 512}
FaceCounts == {-1, 0, 1, 2}
Confidences == {Num(-1), Num(0), Num(50), Num(100), Num(101), NaN, PosInf, NegInf}
Configs ==
    {Canny(l, h) : l \in Thresholds, h \in Thresholds}
        \cup {Hed(d, i) : d \in Resolutions, i \in Resolutions}
        \cup {MediapipeFace(f, c) : f \in FaceCounts, c \in Confidences}
        \cup {TileResampler(r) : r \in TileRates}

NoConfig == [type |-> "none"]

ConfigIdle ==
    /\ cfgArgs = NoConfig
    /\ cfgPc = "idle"
    /\ cfgFetched = FALSE

ConfigInit ==
    /\ cfgArgs \in Configs
    /\ cfgPc = "new"
    /\ cfgFetched = FALSE

\* The constructor: pydantic validates the fields and raises ValidationError
\* on the first value outside its range.
ConstructConfig ==
    /\ cfgPc = "new"
    /\ cfgPc' = IF ConfigOk(cfgArgs) THEN "constructed" ELSE "ValidationError"
    /\ UNCHANGED <<cfgArgs, cfgFetched>>

\* invoke, a method of the constructed object: its first statement fetches
\* the image.
InvokeConfig ==
    /\ cfgPc = "constructed"
    /\ cfgFetched' = TRUE
    /\ cfgPc' = "invoked"
    /\ UNCHANGED cfgArgs

ConfigNext ==
    \/ ConstructConfig /\ UNCHANGED <<controlVars, paintVars, procVars, tileVars, samVars, netVars>>
    \/ InvokeConfig /\ UNCHANGED <<controlVars, paintVars, procVars, tileVars, samVars, netVars>>

(***************************************************************************)
(* ControlNetInvocation (controlnet_image_processors.py:100-134)           *)
(***************************************************************************)

\* The fields of the invocation as pydantic validates them in the
\* constructor: control_weight is declared without a range and without a
\* validator, begin_step_percent with ge=-1, le=2, end_step_percent with
\* ge=0, le=1.
ControlNetInvocationOk(w, b, e) ==
    FieldGeLe(b, Num(-100), Num(200)) /\ FieldGeLe(e, Num(0), Num(100))

\* Inputs of the model.
BeginStepPercents ==
    {Num(-101), Num(-100), Num(-1), Num(0), Num(100), Num(150), Num(200), Num(201), NaN}

NetIdle ==
    /\ cnArgs = NoField
    /\ cnPc = "idle"

NetInit ==
    /\ cnArgs \in {ControlField(w, b, e) :
                      w \in Weights, b \in BeginStepPercents, e \in StepPercents}
    /\ cnPc = "new"

\* ControlNetInvocation(control_weight=..., begin_step_percent=..., ...)
ConstructControlNet ==
    /\ cnPc = "new"
    /\ cnPc' = IF ControlNetInvocationOk(cnArgs.control_weight,
                                         cnArgs.begin_step_percent,
                                         cnArgs.end_step_percent)
               THEN "constructed" ELSE "ValidationError"
    /\ UNCHANGED <<cnArgs, controlVars>>

\* invoke: builds a ControlField from the invocation's own fields and returns
\* it in a ControlOutput; a ValidationError of ControlField propagates.
InvokeControlNet ==
    /\ cnPc = "constructed"
    /\ cfArgs' = ControlField(cnArgs.control_weight, cnArgs.begin_step_percent,
                              cnArgs.end_step_percent)
    /\ Construct(cnArgs.control_weight, cnArgs.begin_step_percent,
                 cnArgs.end_step_percent)
    /\ cnPc' = IF ControlFieldOk(cnArgs.control_weight, cnArgs.begin_step_percent,
                                 cnArgs.end_step_percent)
               THEN "returned" ELSE "raised"
    /\ UNCHANGED cnArgs

ControlNetNext ==
    \/ ConstructControlNet
          /\ UNCHANGED <<paintVars, procVars, tileVars, samVars, configVars>>
    \/ InvokeControlNet
          /\ UNCHANGED <<paintVars, procVars, tileVars, samVars, configVars>>

(***************************************************************************)
(* Specifications                                                          *)
(***************************************************************************)
PaintIdle ==
    /\ PaintInit
    /\ users = {DefaultUser}

InitControl == ControlInit /\ PaintIdle /\ ProcIdle /\ TileIdle /\ SamIdle /\ ConfigIdle /\ NetIdle

SpecControl == InitControl /\ [][ControlNext]_vars

InitControlNet ==
    NetInit /\ ControlIdle /\ PaintIdle /\ ProcIdle /\ TileIdle /\ SamIdle
        /\ ConfigIdle

SpecControlNet == InitControlNet /\ [][ControlNetNext]_vars

Init == PaintInit /\ ControlIdle /\ ProcIdle /\ TileIdle /\ SamIdle /\ ConfigIdle /\ NetIdle

Spec == Init /\ [][PaintNext]_vars

InitProc == ProcInit /\ ControlIdle /\ PaintIdle /\ TileIdle /\ SamIdle /\ ConfigIdle /\ NetIdle

SpecProc == InitProc /\ [][ProcNext]_vars

InitTile == TileInit /\ ControlIdle /\ PaintIdle /\ ProcIdle /\ SamIdle /\ ConfigIdle /\ NetIdle

SpecTile == InitTile /\ [][TileNext]_vars

InitSam == SamInit /\ ControlIdle /\ PaintIdle /\ ProcIdle /\ TileIdle /\ ConfigIdle /\ NetIdle

SpecSam == InitSam /\ [][SamNext]_vars

InitSamTwice == SamTwiceInit /\ ControlIdle /\ PaintIdle /\ ProcIdle /\ TileIdle /\ ConfigIdle /\ NetIdle

SpecSamTwice == InitSamTwice /\ [][SamTwiceNext]_vars

InitConfig ==
    ConfigInit /\ ControlIdle /\ PaintIdle /\ ProcIdle /\ TileIdle /\ SamIdle
        /\ NetIdle

SpecConfig == InitConfig /\ [][ConfigNext]_vars

(***************************************************************************)
(* C1                                                                      *)
(***************************************************************************)

\* A weight is inside [-1, 2] when it is a number x with -1 <= x <= 2.
InRange(x) == x.k = "num" /\ -100 <= x.v /\ x.v <= 200

WeightInside(w) ==
    IF w.tag = "list" THEN \A n \in 1..Len(w.xs) : InRange(w.xs[n])
    ELSE InRange(w.x)

StepArgsValid ==
    StepPercentOk(cfArgs.begin_step_percent) /\ StepPercentOk(cfArgs.end_step_percent)

\* C1: with the other fields valid, constructing a ControlField fails with a
\* validation error whenever the weight (or any element of a weight list) is
\* outside [-1, 2], and succeeds whenever it (every element) is inside.
C1_WeightRangeEnforced ==
    (cfResult # "none" /\ StepArgsValid) =>
        /\ ~WeightInside(cfArgs.control_weight) => cfResult = "ValidationError"
        /\ WeightInside(cfArgs.control_weight) => cfResult = "ok"

\* The same statement restricted to weights that are ordered floats (no NaN):
\* this part of C1 holds of the validator.
C1_OrderedWeights ==
    (cfResult # "none" /\ StepArgsValid
        /\ (\A n \in 1..Len(cfArgs.control_weight.xs) : cfArgs.control_weight.xs[n].k # "nan")
        /\ cfArgs.control_weight.x.k # "nan") =>
        (cfResult = "ok" <=> WeightInside(cfArgs.control_weight))

(***************************************************************************)
(* C2                                                                      *)
(***************************************************************************)

\* C2: after any sequence of mutations, a createPainting that succeeds
\* persists exactly one new row under an id no row had before, and the
\* painting(id) query for that id, run in the state the create leaves,
\* returns a row whose prompt, title (when one was supplied) and artist id
\* are the values supplied to the create.
C2_CreateThenGet ==
    (resp.op = "createPainting" /\ resp.status = "ok") =>
        LET id == resp.painting.id
            got == resolve_painting(paintings, id)
        IN  /\ id \notin DOMAIN before
            /\ DOMAIN paintings = DOMAIN before \cup {id}
            /\ got.status = "ok"
            /\ got.painting.id = id
            /\ got.painting.prompt = resp.args.prompt
            /\ got.painting.artist_id = resp.args.artist_id
            /\ resp.args.title # None => got.painting.title = resp.args.title

\* A create with a title that succeeds after earlier creates and updates.
C2_Witness ==
    /\ resp.op = "createPainting" /\ resp.status = "ok"
    /\ resp.args.title = "Dawn"
    /\ before # <<>>
    /\ retitled # {}

(***************************************************************************)
(* C3                                                                      *)
(***************************************************************************)

\* C3: updatePainting(id, newTitle) on an existing id changes only the title
\* of that row: the painting(id) query then returns newTitle, every other
\* field of the row and every field of every other row is as before, and the
\* set of rows is the same.
C3_UpdateOnlyTitle ==
    (resp.op = "updatePainting" /\ resp.args.id \in DOMAIN before) =>
        LET id == resp.args.id
            got == resolve_painting(paintings, id)
        IN  /\ resp.status = "ok"
            /\ got.status = "ok"
            /\ got.painting.title = resp.args.title
            /\ DOMAIN paintings = DOMAIN before
            /\ paintings[id] = [before[id] EXCEPT !.title = resp.args.title]
            /\ \A j \in DOMAIN before \ {id} : paintings[j] = before[j]

\* An update that changes the title of one of two stored rows whose titles
\* both differ from the new one.
C3_Witness ==
    /\ resp.op = "updatePainting" /\ resp.status = "ok"
    /\ Cardinality(DOMAIN before) >= 2
    /\ \A j \in DOMAIN before : before[j].title # resp.args.title

(***************************************************************************)
(* C4                                                                      *)
(***************************************************************************)

C5_AllPaintingsAreTheCreated ==
    /\ DOMAIN paintings = created
    /\ DOMAIN before \subseteq DOMAIN paintings
    /\ resp.op = "updatePainting" => DOMAIN paintings = DOMAIN before
    /\ resp.op = "allPaintings" =>
        /\ resp.status = "ok"
        /\ resp.all = {paintings[i] : i \in created}
        /\ Cardinality(resp.all) = Cardinality(created)

\* allPaintings after two creates and an update.
C5_Witness ==
    /\ resp.op = "allPaintings"
    /\ Cardinality(created) >= 2
    /\ retitled # {}

(***************************************************************************)
(* C6                                                                      *)
(***************************************************************************)

\* Each stored row has exactly one creator: a non-null artist id and a
\* non-null user key that names a row of the user table.
OneCreator(row) == row.artist_id # None /\ row.user \in users

\* C6 as stated: in every reachable state each persisted Painting has exactly
\* one creator, and a Painting whose title was not set at creation has the
\* title "Untitled".
C6_AsStated ==
    \A id \in DOMAIN paintings :
        /\ OneCreator(paintings[id])
        /\ id \in titleUnset => paintings[id].title = "Untitled"

\* C6 amended: in every reachable state each persisted Painting has exactly
\* one creator, and a Painting whose title was not set at creation has the
\* title "Untitled" as long as no updatePainting has been applied to it.
C6_DefaultTitleUntilUpdate ==
    \A id \in DOMAIN paintings :
        /\ OneCreator(paintings[id])
        /\ id \in titleUnset \ retitled => paintings[id].title = "Untitled"

\* A row created without a title and never updated, beside an updated one.
C6_Witness ==
    /\ \E id \in DOMAIN paintings : id \in titleUnset \ retitled
    /\ \E id \in DOMAIN paintings : id \in titleUnset \cap retitled

(***************************************************************************)
(* C7                                                                      *)
(***************************************************************************)

\* C7: when invoke has returned, it has fetched the input image once, by the
\* name in its image field; every image stored when it began is stored
\* unchanged (the input among them); exactly one image was added, with
\* origin INTERNAL and category CONTROL; the output names that image and
\* carries the width and height the service reported for it.
C7_InvokeStoresOneControlImage ==
    pc = "done" =>
        /\ outcome = "returned"
        /\ calls.get = 1 /\ calls.create = 1
        /\ inv.image_name \in DOMAIN storeAtStart
        /\ raw = storeAtStart[inv.image_name].image
        /\ \A n \in DOMAIN storeAtStart : n \in DOMAIN store /\ store[n] = storeAtStart[n]
        /\ DOMAIN store \ DOMAIN storeAtStart = {output.image_name}
        /\ store[output.image_name].origin = "INTERNAL"
        /\ store[output.image_name].category = "CONTROL"
        /\ store[output.image_name].image = processed
        /\ output.width = dto.width /\ output.height = dto.height
        /\ dto.image_name = output.image_name
        /\ dto.width = store[output.image_name].image.width
        /\ dto.height = store[output.image_name].image.height

\* A HED invoke that returned an image of another size than its input,
\* with a second image in the service.
C7_Witness ==
    /\ pc = "done"
    /\ inv.type = "hed_image_processor"
    /\ Cardinality(DOMAIN storeAtStart) >= 2
    /\ output.width # raw.width

(***************************************************************************)
(* C8                                                                      *)
(***************************************************************************)

\* C8: when the fetch, the model load or the model run raises, invoke fails
\* with the error raised, run_processor has been entered at most once and
\* the detector called at most once, and the image service holds what it
\* held when invoke began (images.create was not called).
C8_FailurePropagates ==
    /\ calls.run <= 1 /\ calls.infer <= 1 /\ calls.load <= 1
    /\ fault.at \in {"get", "load", "infer"} =>
        /\ pc = "failed"
        /\ outcome = fault.err
        /\ calls.create = 0
        /\ store = storeAtStart
        /\ output = NoOutput

\* A HED invoke whose model loaded and whose run raised.
C8_Witness ==
    /\ pc = "failed"
    /\ inv.type = "hed_image_processor"
    /\ fault = [at |-> "infer", err |-> "InferenceError"]
    /\ calls.load = 1

(***************************************************************************)
(* C9                                                                      *)
(***************************************************************************)

\* trunc(n / r) for a rate r held in hundredths
Trunc(n, r) == (n * 100) \div r

TileRan == tilePc \in {"done", "raised"}

Rank(anns, i) ==
    Cardinality({j \in 1..Len(anns) :
        \/ anns[j].area > anns[i].area
        \/ anns[j].area = anns[i].area /\ j < i})

Covering(anns, p) == {i \in 1..Len(anns) : p \in anns[i].segmentation}

\* C10: for N >= 1 annotations and a palette of P colours, the annotation of
\* rank i in descending order of area is painted with palette[i mod P]; a
\* pixel covered by several annotations shows the colour of the one of
\* highest rank among them, a pixel covered by none is black.
C10_RankColouring ==
    (samPc = "done" /\ Len(samAnns) >= 1) =>
        /\ samOut.returned = "image"
        /\ \A p \in Pixels :
            IF Covering(samAnns, p) = {}
            THEN samOut.img[p] = Black
            ELSE \E i \in Covering(samAnns, p) :
                    /\ \A j \in Covering(samAnns, p) : Rank(samAnns, j) <= Rank(samAnns, i)
                    /\ samOut.img[p] = palette[(Rank(samAnns, i) % PaletteLen) + 1]

\* More annotations than colours, of differing areas and given smallest
\* first, all covering pixel 1 and none covering pixel 2.
C10_Witness ==
    /\ samPc = "done"
    /\ Len(samAnns) > PaletteLen
    /\ samAnns[1].area < samAnns[2].area
    /\ \A i \in 1..Len(samAnns) : samAnns[i].segmentation = {1}
    /\ samOut.img[1] # Black
    /\ samOut.img[2] = Black

(***************************************************************************)
(* C11                                                                     *)
(***************************************************************************)

\* C11: two runs of show_anns on the same list of annotations return the same
\* thing, pixel for pixel, whatever np.empty handed out in either run.
C11_TwoRunsAgree ==
    samPc = "twice" => samOut2 = samOut

\* Both runs are over: np.empty returned different contents in the two runs,
\* two of the annotations have the same area and some pixel got a colour.
C11_Witness ==
    /\ samPc = "twice"
    /\ samEmpty[1] # samEmpty[2]
    /\ \E i, j \in 1..Len(samAnns) : i < j /\ samAnns[i].area = samAnns[j].area
    /\ \E p \in Pixels : samOut.img[p] # Black

(***************************************************************************)
(* C12                                                                     *)
(***************************************************************************)

IntInside(v, lo, hi) == lo <= v /\ v <= hi
FloatInside(x, lo, hi) == x.k = "num" /\ lo <= x.v /\ x.v <= hi

\* every numeric field of the configuration is inside the range stated for it
AllInside(c) ==
    CASE c.type = "canny_image_processor" ->
            IntInside(c.low_threshold, 0, 255) /\ IntInside(c.high_threshold, 0, 255)
      [] c.type = "hed_image_processor" ->
            c.detect_resolution >= 0 /\ c.image_resolution >= 0
      [] c.type = "mediapipe_face_processor" ->
            c.max_faces >= 1 /\ FloatInside(c.min_confidence, 0, 100)
      [] c.type = "tile_image_processor" ->
            FloatInside(c.down_sampling_rate, 100, 800)

C13_CreatedAtIsCreationTime ==
    /\ \A i \in DOMAIN paintings : paintings[i].created_at = createdWhen[i]
    /\ \A i, j \in DOMAIN paintings :
           createdWhen[i] < createdWhen[j]
               => paintings[i].created_at < paintings[j].created_at

(***************************************************************************)
(* C14                                                                     *)
(***************************************************************************)

\* C14: a ControlNetInvocation that passed its own field validation holds
\* values ControlField accepts, its invoke never raises, and the ControlField
\* invoke returns carries the invocation's weight, begin and end step percent
\* unchanged.
C14_ValidInvocationInvokes ==
    /\ cnPc \in {"constructed", "returned", "raised"}
          => ControlFieldOk(cnArgs.control_weight, cnArgs.begin_step_percent,
                            cnArgs.end_step_percent)
    /\ cnPc # "raised"
    /\ cnPc = "returned" => cfResult = "ok" /\ cfValue = cnArgs

====
